---- MODULE Spec2Model ----
(***************************************************************************)
(* auth-pkce: OAuth 2.0 authorization-code flow with PKCE for CLIs.        *)
(*                                                                         *)
(* The model follows one call at a time over the two files of             *)
(* ~/.auth-pkce (config.json, tokens.json): the CLI commands configure,    *)
(* login, logout, refresh, whoami and status, the methods isAuthenticated, *)
(* getAccessToken, getTokenInfo, getAuthStatus and refreshToken of         *)
(* AuthPkceApi, and getAccessToken and getBearerToken of AuthPKCELibrary.  *)
(* A login runs                                                            *)
(* OAuthClient.authorize(): endpoint discovery, the PKCE challenge, the    *)
(* local Express listener with its 5-minute timer, the callback handler,   *)
(* the token-endpoint POST and the save of the token record.  Between two  *)
(* calls that read the expiry of the stored record, no time or two hours   *)
(* may have passed.                                                        *)
(*                                                                         *)
(* Environment: the provider's answers (discovery, token, revocation), the *)
(* requests that reach the listener and the passing of time are chosen     *)
(* nondeterministically.  A request is delivered to the Express app only   *)
(* while the http.Server is listening on the port it is sent to.           *)
(* Strings built by template literals are sequences of their parts.        *)
(* The idToken and scope fields of a token record are copied verbatim by   *)
(* the code and are left out.                                              *)
(*                                                                         *)
(* CrashSpec adds processes that die inside saveTokens or saveConfig and   *)
(* the load of the file by the process that comes next.                    *)
(* StoreSpec starts one call on every store a user can have on disk        *)
(* (config.json with any of its optional endpoints, tokens.json or none).  *)
(* ReuseSpec lets authorize() run again on the same OAuthClient after a    *)
(* failed attempt.  RaceSpec lets a second process run logout's            *)
(* clearTokens while a refresh is under way.                               *)
(***************************************************************************)
EXTENDS Integers, Sequences, FiniteSets, TLC

None == "undefined"
\* null: no record (a file that is absent, an object not created yet).
Null == [null |-> TRUE]
\* No exit code yet: the process runs.
Running == 0 - 1

(* ------------------------------ bounds -------------------------------- *)
MaxOps == 2
MaxRequests == 2

(* ------------------------- program constants -------------------------- *)
AuthTimeoutMs == 300000
MsPerSecond == 1000
\* The clock advances by the timer's delay.
TickMs == AuthTimeoutMs

(* ------------------------- environment values ------------------------- *)
\* A redirect URI is its port (the string URL.port gives, "" when the URI
\* names none) and its path.
DefaultRedirectUri == [port |-> "8080", path |-> "/callback"]
RedirectUris ==
  { DefaultRedirectUri,
    [port |-> "4200", path |-> "/"],
    [port |-> "", path |-> "/"] }
\* A state value no attempt generated (forged, or left from another session).
UnknownStates == {"state-0"}
Codes == {"abc123"}
OAuthErrors == {"access_denied"}
\* error and error_description of a callback: none, or the error alone.
ErrorParams ==
  {[error |-> None, error_description |-> None]} \cup
  [error : OAuthErrors, error_description : {None}]
TokenTypes == {"Bearer"}
ExpiresInValues == {0, 3600}

VARIABLES
  configFile,     \* config.json: Null or a CLIConfig
  tokensFile,     \* tokens.json: Null or a StoredTokens
  tokensMode,     \* permission bits of tokens.json ("600", "644") or Null
  now,            \* Date.now()
  ops,            \* CLI processes started so far
  op,             \* the command of the current (or last) process
  pc,             \* its position; "none" before the first, "exit" when it is over
  exitCode,       \* Running, then 0 or 1
  failure,        \* the Error the command's catch block reported, or Null
  config,         \* OAuthClient.config (in memory)
  authState,      \* OAuthClient.authState: Map<state, AuthState>
  pkceChallenge,  \* the PKCEChallenge of the attempt
  state,          \* the state generated for the attempt
  server,         \* the callback http.Server: none, binding, listening, closed
  timer,          \* the 5-minute timer: none, armed, cleared, fired
  timerAt,        \* when it is due
  promise,        \* the promise of handleAuthorizationCallback
  authUrl,        \* the authorization URL handed to the browser, or Null
  lastCallback,   \* the last request sent to the callback URL and what became of it
  delivered,      \* requests that reached the Express app during the attempt
  refused,        \* connections to the callback host that were refused
  handled,        \* requests the callback handler processed during the attempt
  discoveries,    \* discovery GETs sent by the process
  tokenPosts,     \* token-endpoint POSTs sent by the process
  tokenResponse,  \* the token response of the exchange, with its arrival time
  storedTokens,   \* the StoredTokens loginCommand built
  tokens,         \* the token record logoutCommand loaded
  revocations,    \* revocation POSTs sent by the process
  before,         \* tokens.json as it was when the current call began
  result,         \* what the call returned or reported, None while it has not
  autoRefresh,    \* options.autoRefresh of the AuthPkceApi the call is made on
  refreshPosts,   \* grant_type=refresh_token POSTs sent by the call
  userinfoGets,   \* userinfo GETs sent by the call
  callee          \* the method getAuthStatus is awaiting, None outside it

fileVars == <<configFile, tokensFile, tokensMode>>
procVars == <<ops, op, pc, exitCode, failure, config>>
flowVars == <<authState, pkceChallenge, state, server, timer, timerAt, promise,
              authUrl, lastCallback, delivered, refused, handled>>
netVars == <<discoveries, tokenPosts, tokenResponse, storedTokens, tokens, revocations>>
callVars == <<before, result, autoRefresh, refreshPosts, userinfoGets, callee>>
vars == <<fileVars, now, procVars, flowVars, netVars, callVars>>

(* ------------------------------ Errors -------------------------------- *)
\* new Error(message): every error the flow raises is a plain Error.
Error(message) == [name |-> "Error", message |-> message]

Contains(message, part) == \E i \in 1..Len(message) : message[i] = part

(* ------------------------- Crypto primitives -------------------------- *)
\* crypto.randomBytes(..).toString('base64url'): a value no earlier call gave.
\* n numbers the calls (one per process).
generateCodeVerifier(n) == "verifier-" \o ToString(n)
generateState(n) == "state-" \o ToString(n)

\* SHA-256 then base64url, kept symbolic: the digest of v is a term over v.
generateCodeChallenge(codeVerifier) ==
  [hash |-> "sha256", encoding |-> "base64url", of |-> codeVerifier]

\* Variant: the challenge is computed from a second, newly drawn verifier.
generatePKCEChallenge_OtherVerifier(codeVerifier) ==
  [codeVerifier |-> codeVerifier,
   codeChallenge |-> generateCodeChallenge(generateCodeVerifier(0)),
   codeChallengeMethod |-> "S256"]

generatePKCEChallenge(codeVerifier) ==
  [codeVerifier |-> codeVerifier,
   codeChallenge |-> generateCodeChallenge(codeVerifier),
   codeChallengeMethod |-> "S256"]

(* ----------------------------- Map, Promise --------------------------- *)
MapSet(m, k, v) == [x \in (DOMAIN m) \cup {k} |-> IF x = k THEN v ELSE m[x]]
MapDelete(m, k) == [x \in (DOMAIN m) \ {k} |-> m[x]]
MapHas(m, k) == k \in DOMAIN m
EmptyMap == [x \in {} |-> None]

PendingPromise == [status |-> "pending", value |-> None]
\* Settling a settled promise changes nothing.
Resolve(p, v) == IF p.status = "pending" THEN [status |-> "resolved", value |-> v] ELSE p
Reject(p, e) == IF p.status = "pending" THEN [status |-> "rejected", value |-> e] ELSE p

(* --------------------------- Discovery client ------------------------- *)
\* What the well-known endpoint may answer: a document (status 200), 404,
\* or no answer at all (status 0: DNS, connection, the 10 s timeout).
DiscoveryDoc(authorization, token, endSession) ==
  [status |-> 200, authorization_endpoint |-> authorization, token_endpoint |-> token,
   userinfo_endpoint |-> "userinfo", end_session_endpoint |-> endSession]
DiscoveryResponses ==
  { DiscoveryDoc("authorize", "token", "end_session"),
    DiscoveryDoc("authorize", "token", None),
    DiscoveryDoc("authorize", None, None),
    [DiscoveryDoc(None, None, None) EXCEPT !.status = 404],
    [DiscoveryDoc(None, None, None) EXCEPT !.status = 0] }

\* Variant: the document is returned without looking for the two endpoints.
discover_NoValidation(resp) ==
  IF resp.status = 404
    THEN [ok |-> FALSE, doc |-> Null,
          error |-> Error(<<"OpenID Connect discovery endpoint not found at ", "baseUrl">>)]
  ELSE IF resp.status # 200
    THEN [ok |-> FALSE, doc |-> Null,
          error |-> Error(<<"Failed to discover OpenID Connect configuration: ", "network">>)]
  ELSE [ok |-> TRUE, doc |-> resp, error |-> Null]

\* OIDCDiscoveryService.discover when the well-known endpoint answers resp.
discover(resp) ==
  IF resp.status = 404
    THEN [ok |-> FALSE, doc |-> Null,
          error |-> Error(<<"OpenID Connect discovery endpoint not found at ", "baseUrl">>)]
  ELSE IF resp.status # 200
    THEN [ok |-> FALSE, doc |-> Null,
          error |-> Error(<<"Failed to discover OpenID Connect configuration: ", "network">>)]
  ELSE IF resp.authorization_endpoint = None \/ resp.token_endpoint = None
    THEN [ok |-> FALSE, doc |-> Null,
          error |-> Error(<<"Invalid OpenID Connect configuration: missing required endpoints">>)]
  ELSE [ok |-> TRUE, doc |-> resp, error |-> Null]

(* -------------------------- OAuth flow engine ------------------------- *)
NeedsDiscovery(cfg) == cfg.authorizationEndpoint = None \/ cfg.tokenEndpoint = None

\* Variant: the test of the two endpoints is left out.
ensureEndpoints_AlwaysDiscovers(cfg, resp) ==
  LET d == discover(resp) IN
  IF d.ok
    THEN [ok |-> TRUE, sent |-> 1, error |-> Null,
          config |-> [cfg EXCEPT !.authorizationEndpoint = d.doc.authorization_endpoint,
                                 !.tokenEndpoint = d.doc.token_endpoint,
                                 !.userinfoEndpoint = d.doc.userinfo_endpoint,
                                 !.endSessionEndpoint = d.doc.end_session_endpoint]]
    ELSE [ok |-> FALSE, config |-> cfg, sent |-> 1, error |-> d.error]

\* The result of ensureEndpoints on cfg when the discovery endpoint would
\* answer resp: the config afterwards, whether a GET was sent, and the error
\* thrown, if any.
ensureEndpoints(cfg, resp) ==
  IF ~NeedsDiscovery(cfg)
    THEN [ok |-> TRUE, config |-> cfg, sent |-> 0, error |-> Null]
  ELSE LET d == discover(resp) IN
    IF d.ok
      THEN [ok |-> TRUE, sent |-> 1, error |-> Null,
            config |-> [cfg EXCEPT !.authorizationEndpoint = d.doc.authorization_endpoint,
                                   !.tokenEndpoint = d.doc.token_endpoint,
                                   !.userinfoEndpoint = d.doc.userinfo_endpoint,
                                   !.endSessionEndpoint = d.doc.end_session_endpoint]]
      ELSE [ok |-> FALSE, config |-> cfg, sent |-> 1, error |-> d.error]

buildAuthorizationUrl(cfg, challenge, st, redirectUri) ==
  [endpoint |-> cfg.authorizationEndpoint,
   response_type |-> "code",
   redirect_uri |-> redirectUri,
   state |-> st,
   code_challenge |-> challenge.codeChallenge,
   code_challenge_method |-> challenge.codeChallengeMethod]

AuthStateOf(st, challenge, redirectUri) ==
  [state |-> st, codeVerifier |-> challenge.codeVerifier, redirectUri |-> redirectUri]

\* parseInt(url.port) || 8080: the port the listener binds.
listenPort(redirectUri) == IF redirectUri.port = "" THEN "8080" ELSE redirectUri.port

\* The port a browser following the redirect connects to: the URI's, or the
\* scheme's default when the URI names none.
BrowserPort(redirectUri) == IF redirectUri.port = "" THEN "80" ELSE redirectUri.port

\* app.get('/', ...): the only route of the Express app.
CallbackRoute == "/"
Routed(req) == req.path = CallbackRoute

Paths == {"/", "/callback"}
Opt(S) == S \cup {None}
CallbackRequests(redirectUri, issued) ==
  { [port |-> p, path |-> q, code |-> c, state |-> s,
     error |-> e.error, error_description |-> e.error_description] :
      p \in {BrowserPort(redirectUri), listenPort(redirectUri)}, q \in Paths,
      c \in Opt(Codes), s \in Opt(issued \cup UnknownStates), e \in ErrorParams }

OAuthErrorMessage(req) ==
  <<"OAuth error: ", req.error>> \o
  (IF req.error_description # None THEN <<" - ", req.error_description>> ELSE <<>>)

\* Variant: the handler does not look the state up in the pending map.
CallbackHandler_NoStateCheck(req, m) ==
  IF req.error # None
    THEN [status |-> 400, close |-> TRUE, settle |-> "reject",
          value |-> Error(OAuthErrorMessage(req))]
  ELSE IF req.code = None
    THEN [status |-> 400, close |-> TRUE, settle |-> "reject",
          value |-> Error(<<"Missing authorization code or state parameter">>)]
  ELSE [status |-> 200, close |-> TRUE, settle |-> "resolve", value |-> req.code]

\* Variant: the branches that reject leave the server open.
CallbackHandler_KeepsListening(req, m) ==
  IF req.error # None
    THEN [status |-> 400, close |-> FALSE, settle |-> "reject",
          value |-> Error(OAuthErrorMessage(req))]
  ELSE IF req.code = None \/ req.state = None
    THEN [status |-> 400, close |-> FALSE, settle |-> "reject",
          value |-> Error(<<"Missing authorization code or state parameter">>)]
  ELSE IF ~MapHas(m, req.state)
    THEN [status |-> 400, close |-> FALSE, settle |-> "reject",
          value |-> Error(<<"Invalid state parameter">>)]
  ELSE [status |-> 200, close |-> TRUE, settle |-> "resolve", value |-> req.code]

\* The route handler of handleAuthorizationCallback on req, the pending map
\* being m: the page's status, and how it settles the promise.  Every branch
\* calls server.close().
CallbackHandler(req, m) ==
  IF req.error # None
    THEN [status |-> 400, close |-> TRUE, settle |-> "reject",
          value |-> Error(OAuthErrorMessage(req))]
  ELSE IF req.code = None \/ req.state = None
    THEN [status |-> 400, close |-> TRUE, settle |-> "reject",
          value |-> Error(<<"Missing authorization code or state parameter">>)]
  ELSE IF ~MapHas(m, req.state)
    THEN [status |-> 400, close |-> TRUE, settle |-> "reject",
          value |-> Error(<<"Invalid state parameter">>)]
  ELSE [status |-> 200, close |-> TRUE, settle |-> "resolve", value |-> req.code]

\* The form exchangeCodeForTokens posts.
ExchangeParams(code, codeVerifier, redirectUri) ==
  [grant_type |-> "authorization_code",
   code |-> code,
   redirect_uri |-> redirectUri,
   code_verifier |-> codeVerifier]

\* Variant: the verifier posted is not the one of this attempt.
AuthorizeExchange_StaleVerifier(authorizationCode, challenge, redirectUri) ==
  ExchangeParams(authorizationCode, generateCodeVerifier(0), redirectUri)

\* The call of exchangeCodeForTokens in authorize().
AuthorizeExchange(authorizationCode, challenge, redirectUri) ==
  ExchangeParams(authorizationCode, challenge.codeVerifier, redirectUri)

\* The token responses the provider may give to its n-th client process: the
\* tokens it issues are new ones, the refresh token is optional.
TokenResponses(n) ==
  [access_token : {"access-" \o ToString(n)},
   refresh_token : Opt({"refresh-" \o ToString(n)}),
   expires_in : ExpiresInValues, token_type : TokenTypes]

(* ---------------------------- Session facade -------------------------- *)
\* Variant: expires_in is added as if it were milliseconds.
LoginStoredTokens_Seconds(resp, dateNow) ==
  [accessToken |-> resp.access_token,
   refreshToken |-> resp.refresh_token,
   expiresAt |-> dateNow + resp.expires_in,
   tokenType |-> resp.token_type]

\* The StoredTokens loginCommand builds from the token response at Date.now().
LoginStoredTokens(resp, dateNow) ==
  [accessToken |-> resp.access_token,
   refreshToken |-> resp.refresh_token,
   expiresAt |-> dateNow + (resp.expires_in * MsPerSecond),
   tokenType |-> resp.token_type]

\* Variant: a failure of discovery or of the POST leaves revokeToken.
revokeToken_Throws(cfg, token, tokenTypeHint, resp, httpOk) ==
  LET e == ensureEndpoints(cfg, resp) IN
  IF ~e.ok
    THEN [threw |-> TRUE, config |-> e.config, sent |-> e.sent, posted |-> <<>>]
  ELSE IF e.config.endSessionEndpoint = None
    THEN [threw |-> FALSE, config |-> e.config, sent |-> e.sent, posted |-> <<>>]
  ELSE [threw |-> ~httpOk, config |-> e.config, sent |-> e.sent,
        posted |-> <<[token |-> token, token_type_hint |-> tokenTypeHint, ok |-> httpOk]>>]

\* Variant: a provider without an end-session endpoint is reported as an error.
revokeToken_NoEndpointThrows(cfg, token, tokenTypeHint, resp, httpOk) ==
  LET e == ensureEndpoints(cfg, resp) IN
  IF ~e.ok
    THEN [threw |-> FALSE, config |-> e.config, sent |-> e.sent, posted |-> <<>>]
  ELSE IF e.config.endSessionEndpoint = None
    THEN [threw |-> TRUE, config |-> e.config, sent |-> e.sent, posted |-> <<>>]
  ELSE [threw |-> FALSE, config |-> e.config, sent |-> e.sent,
        posted |-> <<[token |-> token, token_type_hint |-> tokenTypeHint, ok |-> httpOk]>>]

\* What one revokeToken call does when discovery would answer resp and the
\* revocation POST would end as httpOk: everything inside is caught.
revokeToken(cfg, token, tokenTypeHint, resp, httpOk) ==
  LET e == ensureEndpoints(cfg, resp) IN
  IF ~e.ok
    THEN [threw |-> FALSE, config |-> e.config, sent |-> e.sent, posted |-> <<>>]
  ELSE IF e.config.endSessionEndpoint = None
    THEN [threw |-> FALSE, config |-> e.config, sent |-> e.sent, posted |-> <<>>]
  ELSE [threw |-> FALSE, config |-> e.config, sent |-> e.sent,
        posted |-> <<[token |-> token, token_type_hint |-> tokenTypeHint, ok |-> httpOk]>>]

(* ------------------------------- Init --------------------------------- *)
\* The CLIConfig configureInteractively builds: no endpoint is set.
NewConfig(redirectUri) ==
  [redirectUri |-> redirectUri, authorizationEndpoint |-> None, tokenEndpoint |-> None,
   userinfoEndpoint |-> None, endSessionEndpoint |-> None]

NoPromise == [status |-> "none", value |-> None]

\* The installation is fresh or holds the config.json an earlier configure
\* wrote; nobody is logged in.
Init ==
  /\ configFile \in {Null} \cup {NewConfig(u) : u \in RedirectUris}
  /\ tokensFile = Null /\ tokensMode = None
  /\ now = 0
  /\ ops = 0 /\ op = "none" /\ pc = "none" /\ exitCode = Running /\ failure = Null
  /\ config = Null
  /\ authState = EmptyMap /\ pkceChallenge = Null /\ state = None
  /\ server = "none" /\ timer = "none" /\ timerAt = 0 /\ promise = NoPromise
  /\ authUrl = Null /\ lastCallback = Null /\ delivered = 0 /\ refused = 0 /\ handled = 0
  /\ discoveries = 0 /\ tokenPosts = <<>> /\ tokenResponse = Null
  /\ storedTokens = Null /\ tokens = Null /\ revocations = <<>>
  /\ before = Null /\ result = None /\ autoRefresh = TRUE
  /\ refreshPosts = <<>> /\ userinfoGets = 0 /\ callee = None

(* ------------------------ process bookkeeping ------------------------- *)
NoProcess == pc \in {"none", "exit"}

\* A new call, made on an AuthPkceApi whose options.autoRefresh is auto and
\* going into method first (None: the call awaits no other method of the
\* class in sequence): nothing sent yet.
StartCall(command, auto, method) ==
  /\ NoProcess
  /\ ops < MaxOps
  /\ ops' = ops + 1
  /\ op' = command
  /\ authState' = EmptyMap /\ pkceChallenge' = Null /\ state' = None
  /\ server' = "none" /\ timer' = "none" /\ timerAt' = 0 /\ promise' = NoPromise
  /\ authUrl' = Null /\ lastCallback' = Null /\ delivered' = 0 /\ refused' = 0
  /\ handled' = 0
  /\ discoveries' = 0 /\ tokenPosts' = <<>> /\ tokenResponse' = Null
  /\ storedTokens' = Null /\ revocations' = <<>>
  /\ before' = tokensFile /\ autoRefresh' = auto
  /\ refreshPosts' = <<>> /\ userinfoGets' = 0
  /\ callee' = method

NewCall(command, auto) == StartCall(command, auto, None)

\* A new CLI process: a new OAuthClient; autoRefresh is the default of the
\* AuthPkceApi constructor.
NewProcess(command) == NewCall(command, TRUE) /\ result' = None

\* A library call returns value; error is what its catch block logged.
Return(value, error) ==
  pc' = "exit" /\ exitCode' = Running /\ failure' = error /\ result' = value
\* A library call throws error to its caller.
Throw(error) == Return(None, error)

Exit(code, error) == pc' = "exit" /\ exitCode' = code /\ failure' = error

\* configureCommand: configureInteractively asks, then saveConfig writes.
ConfigureCommand ==
  \E u \in RedirectUris :
    /\ NewProcess("configure")
    /\ configFile' = NewConfig(u)
    /\ config' = NewConfig(u)
    /\ tokens' = Null
    /\ Exit(0, Null)
    /\ UNCHANGED <<tokensFile, tokensMode, now>>

(* ------------------------------- login -------------------------------- *)
NotConfigured == Error(<<"No configuration found. Please run ", "auth-pkce configure", " first.">>)

\* Variant: loginCommand goes on without a configuration.
LoginCommand_NoConfigCheck ==
  /\ NewProcess("login")
  /\ config' = configFile
  /\ tokens' = Null
  /\ pc' = "ensureEndpoints" /\ exitCode' = Running /\ failure' = Null
  /\ UNCHANGED <<fileVars, now>>

\* loginCommand up to the call of authorize().
LoginCommand ==
  /\ NewProcess("login")
  /\ config' = configFile
  /\ tokens' = Null
  /\ IF configFile = Null
       THEN Exit(1, NotConfigured)
       ELSE pc' = "ensureEndpoints" /\ exitCode' = Running /\ failure' = Null
  /\ UNCHANGED <<fileVars, now>>

\* Variant: the endpoints discovered are written back to config.json.
AuthorizeEnsureEndpoints_SavesConfig ==
  /\ op = "login" /\ pc = "ensureEndpoints"
  /\ \E resp \in DiscoveryResponses :
       LET e == ensureEndpoints(config, resp) IN
       /\ config' = e.config
       /\ configFile' = e.config
       /\ discoveries' = discoveries + e.sent
       /\ IF e.ok
            THEN pc' = "challenge" /\ UNCHANGED <<exitCode, failure>>
            ELSE Exit(1, e.error)
  /\ UNCHANGED <<callVars, tokensFile, tokensMode, now, ops, op, flowVars, tokenPosts,
                 tokenResponse, storedTokens, tokens, revocations>>

\* authorize(): await this.ensureEndpoints().
AuthorizeEnsureEndpoints ==
  /\ op = "login" /\ pc = "ensureEndpoints"
  /\ \E resp \in DiscoveryResponses :
       LET e == ensureEndpoints(config, resp) IN
       /\ config' = e.config
       /\ discoveries' = discoveries + e.sent
       /\ IF e.ok
            THEN pc' = "challenge" /\ UNCHANGED <<exitCode, failure>>
            ELSE Exit(1, e.error)
  /\ UNCHANGED <<callVars, fileVars, now, ops, op, flowVars, tokenPosts, tokenResponse,
                 storedTokens, tokens, revocations>>

\* Variant: the executor sets no timer.
AuthorizeStart_NoTimer ==
  /\ op = "login" /\ pc = "challenge"
  /\ LET challenge == generatePKCEChallenge(generateCodeVerifier(ops))
         s == generateState(ops) IN
       /\ pkceChallenge' = challenge
       /\ state' = s
       /\ authState' = MapSet(authState, s, AuthStateOf(s, challenge, config.redirectUri))
  /\ server' = "binding"
  /\ promise' = PendingPromise
  /\ pc' = "awaiting"
  /\ UNCHANGED <<callVars, fileVars, now, ops, op, exitCode, failure, config, authUrl, timer,
                 timerAt, lastCallback, delivered, refused, handled, netVars>>

\* Variant: the browser is opened before app.listen is called.
AuthorizeStart_OpensBrowser ==
  /\ op = "login" /\ pc = "challenge"
  /\ LET challenge == generatePKCEChallenge(generateCodeVerifier(ops))
         s == generateState(ops) IN
       /\ pkceChallenge' = challenge
       /\ state' = s
       /\ authState' = MapSet(authState, s, AuthStateOf(s, challenge, config.redirectUri))
       /\ authUrl' = buildAuthorizationUrl(config, challenge, s, config.redirectUri)
  /\ server' = "binding"
  /\ timer' = "armed"
  /\ timerAt' = now + AuthTimeoutMs
  /\ promise' = PendingPromise
  /\ pc' = "awaiting"
  /\ UNCHANGED <<callVars, fileVars, now, ops, op, exitCode, failure, config,
                 lastCallback, delivered, refused, handled, netVars>>

\* authorize() from generatePKCEChallenge() into the executor of
\* handleAuthorizationCallback: the state is recorded, app.listen is called
\* and the 5-minute timer is set.
AuthorizeStart ==
  /\ op = "login" /\ pc = "challenge"
  /\ LET challenge == generatePKCEChallenge(generateCodeVerifier(ops))
         s == generateState(ops) IN
       /\ pkceChallenge' = challenge
       /\ state' = s
       /\ authState' = MapSet(authState, s, AuthStateOf(s, challenge, config.redirectUri))
  /\ server' = "binding"
  /\ timer' = "armed"
  /\ timerAt' = now + AuthTimeoutMs
  /\ promise' = PendingPromise
  /\ pc' = "awaiting"
  /\ UNCHANGED <<callVars, fileVars, now, ops, op, exitCode, failure, config, authUrl,
                 lastCallback, delivered, refused, handled, netVars>>

\* The callback of app.listen: the state is recorded again and the
\* authorization URL is opened in the browser (or printed).
ListenCallback ==
  /\ op = "login" /\ pc = "awaiting" /\ server = "binding"
  /\ server' = "listening"
  /\ authState' = MapSet(authState, state,
                         AuthStateOf(state, pkceChallenge, config.redirectUri))
  /\ authUrl' = buildAuthorizationUrl(config, pkceChallenge, state, config.redirectUri)
  /\ UNCHANGED <<callVars, fileVars, now, procVars, pkceChallenge, state, timer, timerAt,
                 promise, lastCallback, delivered, refused, handled, netVars>>

ListenerAlive == op = "login" /\ pc = "awaiting" /\ server \in {"listening", "closed"}

\* A connection to a port of the callback host.  It is refused unless the
\* server listens on that port; nothing of the request reaches the process.
ConnectionRefused ==
  /\ ListenerAlive
  /\ delivered + refused < MaxRequests
  /\ \E p \in {BrowserPort(config.redirectUri), listenPort(config.redirectUri)} :
       ~(server = "listening" /\ p = listenPort(config.redirectUri))
  /\ refused' = refused + 1
  /\ UNCHANGED <<callVars, fileVars, now, procVars, authState, pkceChallenge, state, server,
                 timer, timerAt, promise, authUrl, lastCallback, delivered, handled,
                 netVars>>

Outcome(req, status, settle, known) ==
  [req |-> req, status |-> status, settle |-> settle, known |-> known,
   pendingBefore |-> promise.status = "pending"]

\* A GET that reaches the Express app: Express answers 404 for a path
\* without a route; otherwise the route handler runs.  A timer that is due
\* runs before any further request is handled (the timers phase of the
\* event loop precedes the I/O callbacks).
CallbackRequest ==
  /\ ListenerAlive /\ server = "listening"
  /\ ~(timer = "armed" /\ now >= timerAt)
  /\ delivered + refused < MaxRequests
  /\ delivered' = delivered + 1
  /\ \E req \in CallbackRequests(config.redirectUri, {state} \cup DOMAIN authState) :
       LET known == req.state # None /\ MapHas(authState, req.state) IN
       /\ req.port = listenPort(config.redirectUri)
       /\ IF ~Routed(req)
            THEN /\ lastCallback' = Outcome(req, 404, "none", known)
                 /\ UNCHANGED <<server, promise, timer, handled>>
            ELSE LET h == CallbackHandler(req, authState) IN
                 /\ lastCallback' = Outcome(req, h.status, h.settle, known)
                 /\ handled' = handled + 1
                 /\ server' = IF h.close THEN "closed" ELSE server
                 /\ promise' = IF h.settle = "resolve" THEN Resolve(promise, h.value)
                               ELSE Reject(promise, h.value)
                 /\ timer' = IF h.settle = "resolve" /\ timer = "armed"
                               THEN "cleared" ELSE timer
  /\ UNCHANGED <<callVars, fileVars, now, procVars, authState, pkceChallenge, state, timerAt,
                 authUrl, refused, netVars>>

TimeoutError == Error(<<"Authentication timeout - no callback received within 5 minutes">>)

\* Variant: the timer rejects and leaves the server open.
Timeout_KeepsListening ==
  /\ ListenerAlive
  /\ timer = "armed" /\ now >= timerAt
  /\ timer' = "fired"
  /\ promise' = Reject(promise, TimeoutError)
  /\ UNCHANGED <<callVars, fileVars, now, procVars, authState, pkceChallenge, state, server,
                 timerAt, authUrl, lastCallback, delivered, refused, handled, netVars>>

\* The timer fires: server.close() and reject.
Timeout ==
  /\ ListenerAlive
  /\ timer = "armed" /\ now >= timerAt
  /\ timer' = "fired"
  /\ server' = "closed"
  /\ promise' = Reject(promise, TimeoutError)
  /\ UNCHANGED <<callVars, fileVars, now, procVars, authState, pkceChallenge, state, timerAt,
                 authUrl, lastCallback, delivered, refused, handled, netVars>>

\* Variant: the exchange does not wait for the callback promise.
AuthorizeResume_NoAwait ==
  /\ op = "login" /\ pc = "awaiting"
  /\ IF promise.status # "rejected"
       THEN /\ tokenPosts' = Append(tokenPosts,
                 AuthorizeExchange(promise.value, pkceChallenge, config.redirectUri))
            /\ pc' = "exchanging"
            /\ UNCHANGED <<exitCode, failure>>
       ELSE /\ Exit(1, promise.value)
            /\ UNCHANGED tokenPosts
  /\ UNCHANGED <<callVars, fileVars, now, ops, op, config, flowVars, discoveries, tokenResponse,
                 storedTokens, tokens, revocations>>

\* authorize() after the await of handleAuthorizationCallback: the POST of
\* exchangeCodeForTokens on a code, the rethrow on a rejection (loginCommand
\* reports it and exits 1).
AuthorizeResume ==
  /\ op = "login" /\ pc = "awaiting" /\ promise.status \in {"resolved", "rejected"}
  /\ IF promise.status = "resolved"
       THEN /\ tokenPosts' = Append(tokenPosts,
                 AuthorizeExchange(promise.value, pkceChallenge, config.redirectUri))
            /\ pc' = "exchanging"
            /\ UNCHANGED <<exitCode, failure>>
       ELSE /\ Exit(1, promise.value)
            /\ UNCHANGED tokenPosts
  /\ UNCHANGED <<callVars, fileVars, now, ops, op, config, flowVars, discoveries, tokenResponse,
                 storedTokens, tokens, revocations>>

ExchangeFailed == Error(<<"Token exchange failed: ", "error_description">>)

\* The token endpoint answers: on an error exchangeCodeForTokens throws; on
\* a token response authorize() deletes the state and returns, and
\* loginCommand builds the record to store.
ExchangeResponse ==
  /\ op = "login" /\ pc = "exchanging"
  /\ \/ /\ Exit(1, ExchangeFailed)
        /\ UNCHANGED <<authState, tokenResponse, storedTokens>>
     \/ \E resp \in TokenResponses(ops) :
          /\ authState' = MapDelete(authState, state)
          /\ tokenResponse' = [response |-> resp, at |-> now]
          /\ storedTokens' = LoginStoredTokens(resp, now)
          /\ pc' = "saveTokens"
          /\ UNCHANGED <<exitCode, failure>>
  /\ UNCHANGED <<callVars, fileVars, now, ops, op, config, pkceChallenge, state, server, timer,
                 timerAt, promise, authUrl, lastCallback, delivered, refused, handled,
                 discoveries, tokenPosts, tokens, revocations>>

SaveFailed == Error(<<"Failed to save authentication tokens">>)
SaveOutcomes == {"ok", "ensureDir", "writeJson", "chmod"}

\* configManager.saveTokens(t) ending as outcome names: done, or failing in
\* ensureConfigDir, in writeJson, or in chmod (the file is then written).
saveTokens(t, outcome) ==
  [file |-> IF outcome \in {"ok", "chmod"} THEN t ELSE tokensFile,
   mode |-> IF outcome = "ok" THEN "600"
            ELSE IF outcome = "chmod" /\ tokensFile = Null THEN "644"
            ELSE tokensMode,
   error |-> IF outcome = "ok" THEN Null ELSE SaveFailed]

\* loginCommand: await configManager.saveTokens(storedTokens), process.exit.
LoginSaveTokens ==
  /\ op = "login" /\ pc = "saveTokens"
  /\ \E outcome \in SaveOutcomes :
       LET r == saveTokens(storedTokens, outcome) IN
       /\ tokensFile' = r.file
       /\ tokensMode' = r.mode
       /\ IF r.error = Null THEN Exit(0, Null) ELSE Exit(1, r.error)
  /\ UNCHANGED <<callVars, configFile, now, ops, op, config, flowVars, netVars>>

(* ------------------------------- logout ------------------------------- *)
\* logoutCommand: both records are loaded.
LogoutCommand ==
  /\ NewProcess("logout")
  /\ config' = configFile
  /\ tokens' = tokensFile
  /\ pc' = IF configFile # Null /\ tokensFile # Null THEN "revokeAccess" ELSE "clearTokens"
  /\ exitCode' = Running /\ failure' = Null
  /\ UNCHANGED <<fileVars, now>>

\* One awaited revokeToken of logoutCommand, then on to pc next; an error out
\* of it would end in the catch block: reported, exit 1.
LogoutRevoke(token, hint, next) ==
  /\ IF token = None
       THEN pc' = next /\ UNCHANGED <<exitCode, failure, config, discoveries, revocations>>
       ELSE \E resp \in DiscoveryResponses, httpOk \in BOOLEAN :
              LET r == revokeToken(config, token, hint, resp, httpOk) IN
              /\ config' = r.config
              /\ discoveries' = discoveries + r.sent
              /\ revocations' = revocations \o r.posted
              /\ IF r.threw
                   THEN Exit(1, Error(<<"Logout failed">>))
                   ELSE pc' = next /\ UNCHANGED <<exitCode, failure>>
  /\ UNCHANGED <<callVars, fileVars, now, ops, op, flowVars, tokenPosts, tokenResponse,
                 storedTokens, tokens>>

LogoutRevokeAccess ==
  /\ op = "logout" /\ pc = "revokeAccess"
  /\ LogoutRevoke(tokens.accessToken, "access_token", "revokeRefresh")

LogoutRevokeRefresh ==
  /\ op = "logout" /\ pc = "revokeRefresh"
  /\ LogoutRevoke(tokens.refreshToken, "refresh_token", "clearTokens")

\* configManager.clearTokens(): the file is removed if it exists.
clearTokens == [file |-> Null, mode |-> None]

LogoutClearTokens ==
  /\ op = "logout" /\ pc = "clearTokens"
  /\ tokensFile' = clearTokens.file
  /\ tokensMode' = clearTokens.mode
  /\ Exit(0, Null)
  /\ UNCHANGED <<callVars, configFile, now, ops, op, config, flowVars, netVars>>

(* ------------------------------ refresh ------------------------------- *)
\* The time since the call before: none to speak of, or long enough for a
\* record of an hour's lifetime to expire.  It is observed by the calls that
\* compare Date.now() with the expiresAt of a stored record.
SessionGapMs == 2 * 3600 * MsPerSecond
TimePasses ==
  \E gap \in {0, SessionGapMs} :
    /\ gap > 0 => (tokensFile # Null /\ now < SessionGapMs)
    /\ now' = now + gap

\* ConfigManager.isTokenExpired(t) when Date.now() is dateNow.
\* Variant: a record is still good in the millisecond of its expiry.
isTokenExpired_Strict(t, dateNow) == dateNow > t.expiresAt

isTokenExpired(t, dateNow) == dateNow >= t.expiresAt

NotAuthenticated == Error(<<"Not authenticated. Please run ", "auth-pkce login", " first.">>)
NoRefreshToken ==
  Error(<<"No refresh token available. Please run ", "auth-pkce login", " again.">>)
RefreshFailed == Error(<<"Token refresh failed: ", "error_description">>)
NullResult == "null"

\* The form OAuthClient.refreshToken posts.
RefreshParams(refreshToken) ==
  [grant_type |-> "refresh_token", refresh_token |-> refreshToken]

\* Variant: the refresh token of the response is stored as it came.
UpdatedTokens_DropsRefreshToken(newTokens, old, dateNow) ==
  [accessToken |-> newTokens.access_token,
   refreshToken |-> newTokens.refresh_token,
   expiresAt |-> dateNow + (newTokens.expires_in * MsPerSecond),
   tokenType |-> newTokens.token_type]

\* updatedTokens of refreshCommand and of AuthPkceApi.refreshToken: the new
\* response over the record old, at Date.now() = dateNow.
UpdatedTokens(newTokens, old, dateNow) ==
  [accessToken |-> newTokens.access_token,
   refreshToken |-> IF newTokens.refresh_token # None
                      THEN newTokens.refresh_token ELSE old.refreshToken,
   expiresAt |-> dateNow + (newTokens.expires_in * MsPerSecond),
   tokenType |-> newTokens.token_type]

\* The guard of AuthPkceApi.refreshToken.
CanRefresh(cfg, t) == cfg # Null /\ t # Null /\ t.refreshToken # None

\* Variant: refreshCommand does not look for a refresh token.
RefreshCommand_NoRefreshTokenCheck ==
  /\ NewProcess("refresh")
  /\ config' = configFile
  /\ tokens' = tokensFile
  /\ IF configFile = Null \/ tokensFile = Null
       THEN Exit(1, NotAuthenticated)
       ELSE pc' = "refreshEndpoints" /\ exitCode' = Running /\ failure' = Null
  /\ UNCHANGED <<fileVars, now>>

\* refreshCommand up to new OAuthClient(config).
RefreshCommand ==
  /\ NewProcess("refresh")
  /\ config' = configFile
  /\ tokens' = tokensFile
  /\ IF configFile = Null \/ tokensFile = Null
       THEN Exit(1, NotAuthenticated)
     ELSE IF tokensFile.refreshToken = None
       THEN Exit(1, NoRefreshToken)
     ELSE pc' = "refreshEndpoints" /\ exitCode' = Running /\ failure' = Null
  /\ UNCHANGED <<fileVars, now>>

\* AuthPkceApi.refreshToken() up to new OAuthClient(config).
ApiRefreshToken ==
  /\ NewCall("refreshToken", TRUE)
  /\ config' = configFile
  /\ tokens' = tokensFile
  /\ IF CanRefresh(configFile, tokensFile)
       THEN pc' = "refreshEndpoints" /\ exitCode' = Running /\ failure' = Null
            /\ result' = None
       ELSE Return("false", Null)
  /\ UNCHANGED <<fileVars, now>>

\* What AuthPkceApi.isAuthenticated() does with the records it loaded:
\* answer at once, or go into this.refreshToken().
\* Variant: the autoRefresh option is not consulted.
isAuthenticated_IgnoresOption(cfg, t, auto, dateNow) ==
  IF cfg = Null \/ t = Null THEN "false"
  ELSE IF isTokenExpired(t, dateNow)
    THEN IF t.refreshToken # None THEN "refresh" ELSE "false"
  ELSE "true"

isAuthenticated(cfg, t, auto, dateNow) ==
  IF cfg = Null \/ t = Null THEN "false"
  ELSE IF isTokenExpired(t, dateNow)
    THEN IF auto /\ t.refreshToken # None THEN "refresh" ELSE "false"
  ELSE "true"

\* Variant: the autoRefresh option is not consulted.
getAccessToken_IgnoresOption(cfg, t, auto, dateNow) ==
  IF t = Null THEN NullResult
  ELSE IF isTokenExpired(t, dateNow)
    THEN IF t.refreshToken # None
           THEN IF CanRefresh(cfg, t) THEN "refresh" ELSE NullResult
           ELSE NullResult
  ELSE t.accessToken

\* What AuthPkceApi.getAccessToken() does with the record it loaded; the
\* configuration is looked at only inside this.refreshToken().
getAccessToken(cfg, t, auto, dateNow) ==
  IF t = Null THEN NullResult
  ELSE IF isTokenExpired(t, dateNow)
    THEN IF auto /\ t.refreshToken # None
           THEN IF CanRefresh(cfg, t) THEN "refresh" ELSE NullResult
           ELSE NullResult
  ELSE t.accessToken

ApiCall(command, answer) ==
  /\ config' = configFile
  /\ tokens' = tokensFile
  /\ IF answer = "refresh"
       THEN pc' = "refreshEndpoints" /\ exitCode' = Running /\ failure' = Null
            /\ result' = None
       ELSE Return(answer, Null)
  /\ UNCHANGED fileVars

ApiIsAuthenticated ==
  /\ TimePasses
  /\ \E auto \in BOOLEAN :
       /\ NewCall("isAuthenticated", auto)
       /\ ApiCall("isAuthenticated", isAuthenticated(configFile, tokensFile, auto, now'))

ApiGetAccessToken ==
  /\ TimePasses
  /\ \E auto \in BOOLEAN :
       /\ NewCall("getAccessToken", auto)
       /\ ApiCall("getAccessToken", getAccessToken(configFile, tokensFile, auto, now'))

\* What AuthPkceApi.getTokenInfo() does with the record it loaded: answer
\* null or the record, named here by its access token, or go into
\* this.refreshToken(), which gives up at once without a configuration.
getTokenInfo(cfg, t, auto, dateNow) ==
  IF t = Null THEN NullResult
  ELSE IF isTokenExpired(t, dateNow) /\ auto /\ t.refreshToken # None /\ CanRefresh(cfg, t)
    THEN "refresh"
  ELSE t.accessToken

ApiGetTokenInfo ==
  /\ TimePasses
  /\ \E auto \in BOOLEAN :
       /\ NewCall("getTokenInfo", auto)
       /\ ApiCall("getTokenInfo", getTokenInfo(configFile, tokensFile, auto, now'))

\* AuthPkceApi.getAuthStatus() up to the answer of hasConfiguration(); it
\* goes on to await isAuthenticated(), getTokenInfo() and getUserInfo().
ApiGetAuthStatus ==
  /\ TimePasses
  /\ \E auto \in BOOLEAN : StartCall("getAuthStatus", auto, "isAuthenticated")
  /\ config' = configFile
  /\ tokens' = Null
  /\ pc' = "call" /\ exitCode' = Running /\ failure' = Null /\ result' = None
  /\ UNCHANGED fileVars

\* The method getAuthStatus awaits returned answer, error being what its
\* catch logged: the answer of isAuthenticated() is kept for the summary and
\* the next method is called; after getUserInfo() the summary is returned.
AuthStatusReturn(answer, error) ==
  IF callee = "isAuthenticated"
    THEN /\ callee' = "getTokenInfo" /\ result' = answer
         /\ pc' = "call" /\ failure' = error /\ UNCHANGED exitCode
  ELSE IF callee = "getTokenInfo"
    THEN /\ callee' = "getUserInfo"
         /\ pc' = "call" /\ failure' = error /\ UNCHANGED <<exitCode, result>>
  ELSE Return(result, error) /\ UNCHANGED callee

\* getAuthStatus goes into the method it awaits: isAuthenticated(), or
\* getTokenInfo(), directly and then from getUserInfo(); each loads the
\* records again and may go into this.refreshToken().
AuthStatusCall ==
  /\ op = "getAuthStatus" /\ pc = "call"
  /\ config' = configFile
  /\ tokens' = tokensFile
  /\ LET answer == IF callee = "isAuthenticated"
                     THEN isAuthenticated(configFile, tokensFile, autoRefresh, now)
                     ELSE getTokenInfo(configFile, tokensFile, autoRefresh, now) IN
       IF answer = "refresh"
         THEN pc' = "refreshEndpoints" /\ UNCHANGED <<exitCode, failure, result, callee>>
         ELSE AuthStatusReturn(answer, Null)
  /\ UNCHANGED <<fileVars, now, ops, op, flowVars, discoveries, tokenPosts, tokenResponse,
                 storedTokens, revocations, before, autoRefresh, refreshPosts,
                 userinfoGets>>

Refreshing ==
  op \in {"refresh", "refreshToken", "isAuthenticated", "getAccessToken", "getTokenInfo",
          "getAuthStatus"}

\* How the call ends once its refresh is over with error (Null: the record
\* file was saved): refreshCommand exits, AuthPkceApi.refreshToken and
\* isAuthenticated return whether it succeeded, getAccessToken loads the
\* record again and returns its access token, getTokenInfo returns the
\* record loaded again or, after a failure, the one it had; getAuthStatus
\* goes on with what the method it awaited returned.
RefreshEnd(error, file) ==
  IF op = "getAuthStatus"
    THEN AuthStatusReturn(IF error = Null THEN "true" ELSE "false", error)
  ELSE /\ UNCHANGED callee
       /\ IF op = "refresh"
            THEN (IF error = Null THEN Exit(0, Null) ELSE Exit(1, error)) /\ UNCHANGED result
          ELSE IF op \in {"refreshToken", "isAuthenticated"}
            THEN Return(IF error = Null THEN "true" ELSE "false", error)
          ELSE IF op = "getTokenInfo"
            THEN Return(IF error # Null THEN tokens.accessToken
                        ELSE IF file # Null THEN file.accessToken ELSE NullResult, error)
          ELSE Return(IF error = Null /\ file # Null THEN file.accessToken ELSE NullResult,
                      error)

\* OAuthClient.refreshToken: await this.ensureEndpoints(), then the POST.
RefreshEnsureEndpoints ==
  /\ Refreshing /\ pc = "refreshEndpoints"
  /\ \E resp \in DiscoveryResponses :
       LET e == ensureEndpoints(config, resp) IN
       /\ config' = e.config
       /\ discoveries' = discoveries + e.sent
       /\ IF e.ok
            THEN /\ refreshPosts' = Append(refreshPosts, RefreshParams(tokens.refreshToken))
                 /\ pc' = "refreshing"
                 /\ UNCHANGED <<exitCode, failure, result, callee>>
            ELSE /\ RefreshEnd(e.error, tokensFile)
                 /\ UNCHANGED refreshPosts
  /\ UNCHANGED <<fileVars, now, ops, op, flowVars, tokenPosts, tokenResponse,
                 storedTokens, tokens, revocations, before, autoRefresh, userinfoGets>>

\* The token endpoint answers the refresh: an error makes refreshToken throw;
\* on a token response the updated record is built and saved.
RefreshResponse ==
  /\ Refreshing /\ pc = "refreshing"
  /\ \/ /\ RefreshEnd(RefreshFailed, tokensFile)
        /\ UNCHANGED <<fileVars, tokenResponse, storedTokens>>
     \/ \E resp \in TokenResponses(ops), outcome \in SaveOutcomes :
          LET updated == UpdatedTokens(resp, tokens, now)
              r == saveTokens(updated, outcome) IN
          /\ tokenResponse' = [response |-> resp, at |-> now]
          /\ storedTokens' = updated
          /\ tokensFile' = r.file
          /\ tokensMode' = r.mode
          /\ RefreshEnd(r.error, r.file)
          /\ UNCHANGED configFile
  /\ UNCHANGED <<now, ops, op, config, flowVars, discoveries, tokenPosts, tokens,
                 revocations, before, autoRefresh, refreshPosts, userinfoGets>>

(* ------------------------- token accessors ---------------------------- *)
LibNotAuthenticated == Error(<<"Not authenticated. Please run login first.">>)
LibTokenExpired == Error(<<"Access token expired. Please run refresh or login.">>)

\* AuthPKCELibrary.getAccessToken() on the records it loaded: the token it
\* returns, or the Error it throws.
\* Variant: the accessor hands out the stored token whatever its expiry.
LibAccessToken_NoExpiryCheck(cfg, t, dateNow) ==
  IF cfg = Null \/ t = Null THEN [value |-> None, error |-> LibNotAuthenticated]
  ELSE [value |-> t.accessToken, error |-> Null]

LibAccessToken(cfg, t, dateNow) ==
  IF cfg = Null \/ t = Null THEN [value |-> None, error |-> LibNotAuthenticated]
  ELSE IF isTokenExpired(t, dateNow) THEN [value |-> None, error |-> LibTokenExpired]
  ELSE [value |-> t.accessToken, error |-> Null]

\* `Bearer ${accessToken}`
BearerOf(accessToken) == "Bearer " \o accessToken

LibGetAccessToken ==
  /\ TimePasses
  /\ NewCall("lib.getAccessToken", TRUE)
  /\ config' = configFile
  /\ tokens' = tokensFile
  /\ LET a == LibAccessToken(configFile, tokensFile, now') IN
       IF a.error = Null THEN Return(a.value, Null) ELSE Throw(a.error)
  /\ UNCHANGED fileVars

LibGetBearerToken ==
  /\ TimePasses
  /\ NewCall("lib.getBearerToken", TRUE)
  /\ config' = configFile
  /\ tokens' = tokensFile
  /\ LET a == LibAccessToken(configFile, tokensFile, now') IN
       IF a.error = Null THEN Return(BearerOf(a.value), Null) ELSE Throw(a.error)
  /\ UNCHANGED fileVars

(* ------------------------------- whoami ------------------------------- *)
TokenExpired ==
  Error(<<"Access token expired. Please run ", "auth-pkce refresh", " or ",
          "auth-pkce login", ".">>)
UserinfoStatuses == {200, 401, 500}

\* OAuthClient.getUserInfo(accessToken) when discovery would answer resp and
\* the userinfo endpoint would answer with status.
getUserInfo(cfg, accessToken, resp, status) ==
  LET e == ensureEndpoints(cfg, resp) IN
  IF ~e.ok
    THEN [config |-> e.config, sent |-> e.sent, gets |-> 0, error |-> e.error]
  ELSE IF e.config.userinfoEndpoint = None
    THEN [config |-> e.config, sent |-> e.sent, gets |-> 0,
          error |-> Error(<<"Userinfo endpoint not configured">>)]
  ELSE [config |-> e.config, sent |-> e.sent, gets |-> 1,
        error |-> IF status = 200 THEN Null
                  ELSE IF status = 401 THEN Error(<<"Access token expired or invalid">>)
                  ELSE Error(<<"Failed to get user info: ", "message">>)]

\* Variant: whoamiCommand does not look at the expiry.
WhoamiCommand_NoExpiryCheck ==
  /\ TimePasses
  /\ NewProcess("whoami")
  /\ config' = configFile
  /\ tokens' = tokensFile
  /\ IF configFile = Null \/ tokensFile = Null
       THEN Exit(1, NotAuthenticated)
       ELSE pc' = "getUserInfo" /\ exitCode' = Running /\ failure' = Null
  /\ UNCHANGED fileVars

\* whoamiCommand up to new OAuthClient(config).
WhoamiCommand ==
  /\ TimePasses
  /\ NewProcess("whoami")
  /\ config' = configFile
  /\ tokens' = tokensFile
  /\ IF configFile = Null \/ tokensFile = Null
       THEN Exit(1, NotAuthenticated)
     ELSE IF isTokenExpired(tokensFile, now')
       THEN Exit(1, TokenExpired)
     ELSE pc' = "getUserInfo" /\ exitCode' = Running /\ failure' = Null
  /\ UNCHANGED fileVars

\* whoamiCommand: await oauthClient.getUserInfo(tokens.accessToken), print.
WhoamiGetUserInfo ==
  /\ op = "whoami" /\ pc = "getUserInfo"
  /\ \E resp \in DiscoveryResponses, status \in UserinfoStatuses :
       LET r == getUserInfo(config, tokens.accessToken, resp, status) IN
       /\ config' = r.config
       /\ discoveries' = discoveries + r.sent
       /\ userinfoGets' = userinfoGets + r.gets
       /\ IF r.error = Null THEN Exit(0, Null) ELSE Exit(1, r.error)
  /\ UNCHANGED <<fileVars, now, ops, op, flowVars, tokenPosts, tokenResponse,
                 storedTokens, tokens, revocations, before, result, autoRefresh,
                 refreshPosts, callee>>

(* ------------------------------- status ------------------------------- *)
\* What statusCommand prints about the records it loaded.
statusReport(cfg, t, dateNow) ==
  IF cfg = Null THEN "Not configured"
  ELSE IF t = Null THEN "Not logged in"
  ELSE IF isTokenExpired(t, dateNow) THEN "Token expired"
  ELSE "Active"

\* statusCommand (AuthPKCELibrary.status() awaits it): it prints and returns.
StatusCommand ==
  /\ TimePasses
  /\ NewCall("status", TRUE)
  /\ config' = configFile
  /\ tokens' = tokensFile
  /\ pc' = "exit" /\ exitCode' = 0 /\ failure' = Null
  /\ result' = statusReport(configFile, tokensFile, now')
  /\ UNCHANGED fileVars

(* -------------------------------- time -------------------------------- *)
\* Time is read by the timer of the callback wait and by Date.now() right
\* after it; it advances while the listener waits, up to the timer's due time.
Tick ==
  /\ op = "login" /\ pc = "awaiting" /\ server = "listening"
  /\ timer = "armed" /\ now < timerAt
  /\ now' = now + TickMs
  /\ UNCHANGED <<callVars, fileVars, procVars, flowVars, netVars>>

Next ==
  \/ ConfigureCommand
  \/ LoginCommand
  \/ AuthorizeEnsureEndpoints
  \/ AuthorizeStart
  \/ ListenCallback
  \/ ConnectionRefused
  \/ CallbackRequest
  \/ Timeout
  \/ AuthorizeResume
  \/ ExchangeResponse
  \/ LoginSaveTokens
  \/ LogoutCommand
  \/ LogoutRevokeAccess
  \/ LogoutRevokeRefresh
  \/ LogoutClearTokens
  \/ RefreshCommand
  \/ ApiRefreshToken
  \/ ApiIsAuthenticated
  \/ ApiGetAccessToken
  \/ ApiGetTokenInfo
  \/ ApiGetAuthStatus
  \/ AuthStatusCall
  \/ RefreshEnsureEndpoints
  \/ RefreshResponse
  \/ LibGetAccessToken
  \/ LibGetBearerToken
  \/ WhoamiCommand
  \/ WhoamiGetUserInfo
  \/ StatusCommand
  \/ Tick

Spec == Init /\ [][Next]_vars

\* The process and its timers are scheduled: a step of the program that can
\* be taken is taken, time passes, and a due timer fires.  The requests the
\* environment sends and the commands the user starts are not forced.
ProgramStep ==
  \/ AuthorizeEnsureEndpoints
  \/ AuthorizeStart
  \/ ListenCallback
  \/ AuthorizeResume
  \/ ExchangeResponse
  \/ LoginSaveTokens
  \/ LogoutRevokeAccess
  \/ LogoutRevokeRefresh
  \/ LogoutClearTokens
  \/ AuthStatusCall
  \/ RefreshEnsureEndpoints
  \/ RefreshResponse
  \/ WhoamiGetUserInfo

FairSpec ==
  /\ Init /\ [][Next]_vars
  /\ WF_vars(ProgramStep)
  /\ WF_vars(Tick)
  /\ WF_vars(Timeout)

AwaitingCallback == op = "login" /\ pc = "awaiting"

(* ------------------------------ crashes ------------------------------- *)
\* A file whose JSON text was cut short: fs.writeJson writes the file in
\* place (open with truncation, then write), so a process that dies inside
\* it leaves the file empty or with the beginning of the new text.
Partial == [partial |-> TRUE]
\* The exit status of a process killed by SIGKILL.
Killed == 128 + 9
Torn == tokensFile = Partial \/ configFile = Partial

\* Where inside saveTokens/saveConfig the process dies: before writeJson
\* began, inside it, or after it and before chmod.
CrashPoints == {"ensureDir", "writeJson", "chmod"}

\* The file after a save of record that died at point, old being its
\* contents before.
CrashedWrite(old, record, point) ==
  IF point = "ensureDir" THEN old
  ELSE IF point = "writeJson" THEN Partial
  ELSE record

\* loginCommand dies inside configManager.saveTokens(storedTokens).
CrashInSaveTokens ==
  /\ op = "login" /\ pc = "saveTokens"
  /\ \E point \in CrashPoints :
       /\ tokensFile' = CrashedWrite(tokensFile, storedTokens, point)
       /\ tokensMode' = IF point # "ensureDir" /\ tokensFile = Null
                          THEN "644" ELSE tokensMode
  /\ pc' = "exit" /\ exitCode' = Killed /\ failure' = Null
  /\ UNCHANGED <<callVars, configFile, now, ops, op, config, flowVars, netVars>>

\* configureCommand dies inside configManager.saveConfig(config).
CrashInSaveConfig ==
  \E u \in RedirectUris, point \in CrashPoints :
    /\ ~Torn
    /\ NewProcess("configure")
    /\ configFile' = CrashedWrite(configFile, NewConfig(u), point)
    /\ config' = Null
    /\ tokens' = Null
    /\ pc' = "exit" /\ exitCode' = Killed /\ failure' = Null
    /\ UNCHANGED <<tokensFile, tokensMode, now>>

LoadTokensFailed == Error(<<"Failed to load authentication tokens">>)
LoadConfigFailed == Error(<<"Failed to load configuration file">>)

\* fs.readJson of a file holding contents: JSON.parse throws on a text that
\* was cut short.
readJson(contents) ==
  IF contents = Partial THEN [value |-> Null, threw |-> TRUE]
  ELSE [value |-> contents, threw |-> FALSE]

\* The next process after a crash calls ConfigManager.loadTokens(): null
\* when there is no file, the parsed record, or the Error of its catch.
LoadTokens ==
  /\ pc = "exit" /\ exitCode = Killed
  /\ ops' = ops + 1
  /\ op' = "loadTokens"
  /\ LET r == readJson(tokensFile) IN
       /\ tokens' = r.value
       /\ IF r.threw THEN Throw(LoadTokensFailed)
          ELSE Return(IF r.value = Null THEN NullResult ELSE "tokens", Null)
  /\ UNCHANGED <<fileVars, now, config, flowVars, discoveries, tokenPosts,
                 tokenResponse, storedTokens, revocations, before, autoRefresh,
                 refreshPosts, userinfoGets, callee>>

\* The next process after a crash calls ConfigManager.loadConfig().
LoadConfig ==
  /\ pc = "exit" /\ exitCode = Killed
  /\ ops' = ops + 1
  /\ op' = "loadConfig"
  /\ LET r == readJson(configFile) IN
       /\ config' = r.value
       /\ IF r.threw THEN Throw(LoadConfigFailed)
          ELSE Return(IF r.value = Null THEN NullResult ELSE "config", Null)
  /\ UNCHANGED <<fileVars, now, tokens, flowVars, discoveries, tokenPosts,
                 tokenResponse, storedTokens, revocations, before, autoRefresh,
                 refreshPosts, userinfoGets, callee>>

\* The commands, with processes that may die inside a save; while a file is
\* torn only the loads are followed.
CrashNext ==
  \/ ~Torn /\ Next
  \/ CrashInSaveTokens
  \/ CrashInSaveConfig
  \/ LoadTokens
  \/ LoadConfig

CrashSpec == Init /\ [][CrashNext]_vars

(* ---------------------------- client reuse --------------------------- *)
\* The caller of a failed authorize() calls it again on the same
\* OAuthClient: its config and its authState map are the ones the earlier
\* attempt left.
AuthorizeAgain ==
  /\ op = "login" /\ pc = "exit" /\ exitCode = 1 /\ config # Null
  /\ ops < MaxOps
  /\ ops' = ops + 1
  /\ pc' = "ensureEndpoints" /\ exitCode' = Running /\ failure' = Null
  /\ pkceChallenge' = Null /\ state' = None
  /\ server' = "none" /\ timer' = "none" /\ timerAt' = 0 /\ promise' = NoPromise
  /\ authUrl' = Null /\ lastCallback' = Null /\ delivered' = 0 /\ refused' = 0
  /\ handled' = 0
  /\ discoveries' = 0 /\ tokenPosts' = <<>> /\ tokenResponse' = Null
  /\ storedTokens' = Null
  /\ before' = tokensFile
  /\ UNCHANGED <<fileVars, now, op, config, authState, tokens, revocations, result,
                 autoRefresh, refreshPosts, userinfoGets, callee>>

ReuseNext ==
  \/ Next
  \/ AuthorizeAgain

ReuseSpec == Init /\ [][ReuseNext]_vars

(* ------------------------- concurrent logout -------------------------- *)
\* While a refresh awaits discovery or the token endpoint, a logout (another
\* CLI process, or logout() of the host process between two awaits) runs to
\* its end: of all it does, clearTokens is what the refresh can see.
ConcurrentLogout ==
  /\ Refreshing /\ pc \in {"refreshEndpoints", "refreshing"}
  /\ tokensFile # Null
  /\ tokensFile' = clearTokens.file
  /\ tokensMode' = clearTokens.mode
  /\ UNCHANGED <<callVars, configFile, now, procVars, flowVars, netVars>>

RaceNext ==
  \/ Next
  \/ ConcurrentLogout

RaceSpec == Init /\ [][RaceNext]_vars

(* --------------------------- arbitrary stores ------------------------- *)
\* The optional endpoint fields of OAuthConfig are read from config.json as
\* they stand, whoever wrote them; configure writes none.  A configured
\* endpoint differs from the one the provider's document names.
StoreConfigs ==
  {Null} \cup
  [redirectUri : {DefaultRedirectUri},
   authorizationEndpoint : Opt({"authorize-configured"}),
   tokenEndpoint : Opt({"token-configured"}),
   userinfoEndpoint : Opt({"userinfo-configured"}),
   endSessionEndpoint : Opt({"end_session-configured"})]

\* tokens.json as an earlier session left it, whatever config.json is now.
StoreTokens ==
  {Null} \cup
  [accessToken : {"access-0"}, refreshToken : Opt({"refresh-0"}),
   expiresAt : {3600 * MsPerSecond}, tokenType : TokenTypes]

\* One call is made on each store.
StoreInit ==
  /\ configFile \in StoreConfigs
  /\ tokensFile \in StoreTokens
  /\ tokensMode = IF tokensFile = Null THEN None ELSE "600"
  /\ now = 0
  /\ ops = MaxOps - 1 /\ op = "none" /\ pc = "none" /\ exitCode = Running
  /\ failure = Null
  /\ config = Null
  /\ authState = EmptyMap /\ pkceChallenge = Null /\ state = None
  /\ server = "none" /\ timer = "none" /\ timerAt = 0 /\ promise = NoPromise
  /\ authUrl = Null /\ lastCallback = Null /\ delivered = 0 /\ refused = 0 /\ handled = 0
  /\ discoveries = 0 /\ tokenPosts = <<>> /\ tokenResponse = Null
  /\ storedTokens = Null /\ tokens = Null /\ revocations = <<>>
  /\ before = Null /\ result = None /\ autoRefresh = TRUE
  /\ refreshPosts = <<>> /\ userinfoGets = 0 /\ callee = None

\* The calls that read the two records; login and configure write them anew.
StoreNext ==
  \/ LogoutCommand
  \/ LogoutRevokeAccess
  \/ LogoutRevokeRefresh
  \/ LogoutClearTokens
  \/ RefreshCommand
  \/ ApiRefreshToken
  \/ ApiIsAuthenticated
  \/ ApiGetAccessToken
  \/ ApiGetTokenInfo
  \/ RefreshEnsureEndpoints
  \/ RefreshResponse
  \/ WhoamiCommand
  \/ WhoamiGetUserInfo

StoreSpec == StoreInit /\ [][StoreNext]_vars

(* ============================== claims ================================ *)
InLogin == op = "login"
Settled == promise.status \in {"resolved", "rejected"}
\* The last request that reached the Express app was sent to the redirect
\* URI itself: the port a browser uses for it, and its path.
OnRedirectUri ==
  /\ lastCallback.req.port = BrowserPort(config.redirectUri)
  /\ lastCallback.req.path = config.redirectUri.path
BadState == lastCallback.req.state = None \/ ~lastCallback.known

C2_ExchangeBinding ==
  InLogin =>
    /\ Len(tokenPosts) <= 1
    /\ \A i \in DOMAIN tokenPosts :
         LET post == tokenPosts[i] IN
         /\ post.grant_type = "authorization_code"
         /\ lastCallback # Null /\ lastCallback.settle = "resolve"
         /\ post.code = lastCallback.req.code
         /\ authUrl # Null
         /\ post.redirect_uri = authUrl.redirect_uri
         /\ authUrl.code_challenge_method = "S256"
         /\ generateCodeChallenge(post.code_verifier) = authUrl.code_challenge
         /\ post.code_verifier = generateCodeVerifier(ops)
         /\ \A n \in 0..(ops - 1) : post.code_verifier # generateCodeVerifier(n)

C2_Witness ==
  /\ InLogin /\ ops = 2
  /\ tokenPosts # <<>>
  /\ tokenPosts[1].code \in Codes
  /\ tokenPosts[1].code_verifier = pkceChallenge.codeVerifier

\* C3: once the callback wait has settled (valid callback, provider error,
\* malformed callback, unknown state, timeout), the listener started for it
\* is closed.
C3_ListenerClosedOnSettle ==
  (InLogin /\ (Settled \/ handled > 0 \/ timer = "fired")) => server = "closed"

C3_Witness ==
  /\ InLogin /\ pc = "exit"
  /\ timer = "fired" /\ handled = 0
  /\ promise.status = "rejected"
  /\ server = "closed"

\* C4: the callback handler runs at most once per attempt; after it ran, no
\* step of the same process runs it again or changes the settled promise.
C4_HandledOnce == handled <= 1
C4_NoSecondCallback ==
  [](C4_HandledOnce) /\
  [][(handled >= 1 /\ ops' = ops) => (handled' = handled /\ promise' = promise)]_vars

C4_Witness ==
  /\ InLogin /\ handled = 1 /\ refused = 1
  /\ listenPort(config.redirectUri) = BrowserPort(config.redirectUri)
  /\ server = "closed"

\* C5: an attempt never stays in the callback wait: it is left by a handled
\* callback or by the timer, which fires no earlier than 5 minutes after it
\* was set, closes the listener and, when no callback was handled, rejects
\* with the timeout error.
C5_TimeoutAborts ==
  (InLogin /\ timer = "fired") =>
    /\ server = "closed"
    /\ now >= timerAt /\ timerAt >= 300000
    /\ handled = 0 => (promise = [status |-> "rejected", value |-> TimeoutError]
                        /\ tokenPosts = <<>>)
C5_AttemptTerminates ==
  /\ [](C5_TimeoutAborts)
  /\ (AwaitingCallback \/ (InLogin /\ pc \notin {"none", "exit"})) ~> (pc = "exit")

C5_Witness ==
  /\ InLogin /\ pc = "exit" /\ exitCode = 1
  /\ timer = "fired" /\ handled = 0
  /\ failure = TimeoutError
  /\ server = "closed"

\* C6: a GET on the redirect URI (the port a browser uses for it and its
\* path) that carries a code and the pending state while the promise is
\* pending is handled: the promise is resolved with that code.
C6_CallbackOnRedirectUri ==
  (InLogin /\ lastCallback # Null /\ OnRedirectUri
     /\ lastCallback.req.code # None /\ lastCallback.req.error = None
     /\ lastCallback.req.state = state /\ lastCallback.pendingBefore) =>
    /\ lastCallback.status = 200
    /\ promise = [status |-> "resolved", value |-> lastCallback.req.code]

\* C7: a callback on the redirect URI that carries error=e makes the attempt
\* end with an AuthenticationError whose message contains e, without a token
\* POST and without a token record.
C7_ProviderError ==
  (InLogin /\ pc = "exit" /\ lastCallback # Null /\ OnRedirectUri
     /\ lastCallback.req.error # None /\ lastCallback.pendingBefore) =>
    /\ exitCode = 1
    /\ failure # Null
    /\ failure.name = "AuthenticationError"
    /\ Contains(failure.message, lastCallback.req.error)
    /\ tokenPosts = <<>>
    /\ storedTokens = Null

\* C8: a logout that has ended has left no token record, whatever the
\* revocation calls did (sent or not, answered with success or failure,
\* discovery failing).
C8_LogoutClears ==
  (op = "logout" /\ pc = "exit") => (tokensFile = Null /\ exitCode = 0)

C8_Witness ==
  /\ op = "logout" /\ pc = "exit"
  /\ tokens # Null
  /\ tokensFile = Null
  /\ revocations # <<>> /\ ~revocations[1].ok
  /\ Len(revocations) < 2

\* C9: a login without a persisted configuration ends at once with the
\* "not configured" error: no discovery request, no listener, no
\* authorization URL, no token POST, no token record.
C9_NotConfigured ==
  (InLogin /\ config = Null) =>
    /\ pc = "exit" /\ exitCode = 1
    /\ failure = NotConfigured
    /\ discoveries = 0
    /\ server = "none" /\ promise = NoPromise /\ authState = EmptyMap
    /\ authUrl = Null
    /\ tokenPosts = <<>>
    /\ storedTokens = Null /\ tokensFile = Null

C9_Witness ==
  /\ InLogin /\ configFile = Null /\ pc = "exit"
  /\ failure = NotConfigured

\* C10: after a login that succeeded on the token response R received at
\* time t, the stored record has accessToken = R.access_token, tokenType =
\* R.token_type and expiresAt = t + R.expires_in * 1000.
C10_StoredRecord ==
  (InLogin /\ pc = "exit" /\ exitCode = 0) =>
    /\ tokenResponse # Null /\ tokensFile # Null
    /\ tokensFile.accessToken = tokenResponse.response.access_token
    /\ tokensFile.tokenType = tokenResponse.response.token_type
    /\ tokensFile.expiresAt = tokenResponse.at + tokenResponse.response.expires_in * 1000

C10_Witness ==
  /\ InLogin /\ pc = "exit" /\ exitCode = 0
  /\ tokenResponse.at > 0
  /\ tokenResponse.response.expires_in = 3600
  /\ tokensFile.expiresAt = tokenResponse.at + 3600000

\* A refresh that went through: the call sent its one refresh request, the
\* token endpoint answered with tokens and the record was saved.
RefreshSucceeded ==
  /\ Refreshing /\ pc = "exit"
  /\ Len(refreshPosts) = 1
  /\ tokenResponse # Null /\ failure = Null

\* C11: a token record written by a login or by a refresh has an expiresAt
\* strictly later than the time of the write, whatever expires_in was.
C11_ExpiresAtInFuture ==
  (storedTokens # Null /\ tokensFile = storedTokens) =>
    tokensFile.expiresAt > tokenResponse.at

\* C12: after a refresh that went through, the stored refresh token is the
\* one of the response when it has one, and the one stored before otherwise.
C12_RefreshTokenKept ==
  RefreshSucceeded =>
    /\ tokensFile # Null /\ before # Null
    /\ tokensFile.accessToken = tokenResponse.response.access_token
    /\ tokenResponse.response.refresh_token = None =>
         tokensFile.refreshToken = before.refreshToken
    /\ tokenResponse.response.refresh_token # None =>
         tokensFile.refreshToken = tokenResponse.response.refresh_token

C12_Witness ==
  /\ RefreshSucceeded
  /\ tokenResponse.response.refresh_token = None
  /\ before.refreshToken = "refresh-1"
  /\ tokensFile.refreshToken = "refresh-1"
  /\ tokensFile.accessToken = "access-2"

\* C13: a refresh (refreshCommand, AuthPkceApi.refreshToken) without a stored
\* record, or with a record without a refresh token, fails at once: no
\* discovery, no token-endpoint request, and tokens.json as it was.
C13_RefreshNeedsRefreshToken ==
  (op \in {"refresh", "refreshToken"}
     /\ (before = Null \/ before.refreshToken = None)) =>
    /\ pc = "exit"
    /\ refreshPosts = <<>> /\ tokenPosts = <<>> /\ discoveries = 0
    /\ tokensFile = before
    /\ op = "refresh" =>
         /\ exitCode = 1
         /\ failure = IF config = Null \/ before = Null
                        THEN NotAuthenticated ELSE NoRefreshToken
    /\ op = "refreshToken" => result = "false"

C13_Witness ==
  /\ op = "refresh" /\ pc = "exit" /\ exitCode = 1
  /\ before # Null /\ before.refreshToken = None
  /\ failure = NoRefreshToken
  /\ tokensFile = before

\* C14: isAuthenticated() returns true exactly when, at its return, a token
\* record is stored and is not expired; after a refresh of its own the answer
\* follows the expiry of the record then stored.
C14_AuthenticatedIffFreshRecord ==
  (op = "isAuthenticated" /\ pc = "exit") =>
    ((result = "true") <=> (tokensFile # Null /\ now < tokensFile.expiresAt))

\* An expired record with a refresh token was stored when the call began.
ExpiredWithRefreshToken ==
  /\ config # Null /\ before # Null
  /\ now >= before.expiresAt
  /\ before.refreshToken # None

C16_AccessorReturnsFreshToken ==
  (op \in {"lib.getAccessToken", "lib.getBearerToken"} /\ pc = "exit") =>
    IF config # Null /\ before # Null /\ now < before.expiresAt
      THEN /\ failure = Null
           /\ op = "lib.getAccessToken" => result = before.accessToken
           /\ op = "lib.getBearerToken" =>
                result = "Bearer " \o before.accessToken
      ELSE /\ result = None
           /\ failure = IF config = Null \/ before = Null
                          THEN LibNotAuthenticated ELSE LibTokenExpired

C16_Witness ==
  /\ op = "lib.getBearerToken" /\ pc = "exit"
  /\ before # Null /\ now < before.expiresAt
  /\ result = "Bearer access-1"

\* No request went to the token endpoint during the call and tokens.json is
\* as it was when the call began.
NoRefreshDone ==
  /\ refreshPosts = <<>> /\ tokenPosts = <<>>
  /\ tokensFile = before

\* C17: AuthPKCELibrary.getAccessToken()/getBearerToken() never refresh: in
\* every store state they send nothing to the token endpoint and leave the
\* record as it is. AuthPkceApi.getAccessToken() does the same when
\* autoRefresh is off, and otherwise refreshes only an expired record that
\* has a refresh token.
C17_LibraryAccessorsNeverRefresh ==
  /\ op \in {"lib.getAccessToken", "lib.getBearerToken"} =>
       (pc = "exit" /\ NoRefreshDone /\ discoveries = 0)
  /\ (op = "getAccessToken" /\ ~autoRefresh) =>
       (pc = "exit" /\ NoRefreshDone /\ discoveries = 0)
  /\ (op = "getAccessToken" /\ ~NoRefreshDone) =>
       /\ before # Null
       /\ now >= before.expiresAt
       /\ before.refreshToken # None

C17_Witness ==
  /\ op = "lib.getAccessToken" /\ pc = "exit"
  /\ ExpiredWithRefreshToken
  /\ failure = LibTokenExpired
  /\ NoRefreshDone

\* C17 as stated: no access-token accessor, of the library or of the API,
\* ever sends a token-endpoint request or changes the record.
C17_AccessorsNeverRefresh ==
  op \in {"lib.getAccessToken", "lib.getBearerToken", "getAccessToken"} =>
    NoRefreshDone

\* C18: whoami asks the userinfo endpoint only when a record exists and is
\* not expired; otherwise it fails with no request at all and leaves
\* tokens.json as it is.
C18_WhoamiNeedsFreshRecord ==
  op = "whoami" =>
    /\ tokensFile = before
    /\ (userinfoGets > 0 \/ pc = "getUserInfo") =>
         (config # Null /\ before # Null /\ now < before.expiresAt)
    /\ (config = Null \/ before = Null \/ now >= before.expiresAt) =>
         /\ pc = "exit" /\ exitCode = 1
         /\ userinfoGets = 0 /\ discoveries = 0
         /\ failure = IF config = Null \/ before = Null
                        THEN NotAuthenticated ELSE TokenExpired

C18_Witness ==
  /\ op = "whoami" /\ pc = "exit" /\ exitCode = 1
  /\ before # Null /\ now >= before.expiresAt
  /\ failure = TokenExpired
  /\ userinfoGets = 0

\* C19: isTokenExpired(record) is true exactly when now >= expiresAt: true
\* at the millisecond of the expiry and after it, false before it; status
\* reports a stored record accordingly.
C19_ExpiredFromExpiresAt ==
  /\ isTokenExpired([expiresAt |-> now], now)
  /\ isTokenExpired([expiresAt |-> now - 1], now)
  /\ ~isTokenExpired([expiresAt |-> now + 1], now)
  /\ (op = "status" /\ config # Null /\ before # Null) =>
       /\ (result = "Token expired") <=> (now >= before.expiresAt)
       /\ (result = "Active") <=> (now < before.expiresAt)

C19_Witness ==
  /\ op = "status" /\ pc = "exit"
  /\ config # Null /\ before # Null
  /\ now = before.expiresAt
  /\ result = "Token expired"

\* The calls of the session facade.
FacadeOps ==
  {"login", "refresh", "refreshToken", "whoami", "status", "isAuthenticated",
   "getAccessToken", "lib.getAccessToken", "lib.getBearerToken"}

\* C20: a facade call that ends in an error leaves tokens.json identical to
\* what it was before the call, also when the error arises inside the save.
C20_FailureLeavesRecord ==
  (op \in FacadeOps /\ pc = "exit" /\ failure # Null) =>
    tokensFile = before

\* C23: revokeToken never raises to logoutCommand: no logout ends in its
\* catch block because of a revocation, whether discovery failed, the
\* revocation POST failed or no end-session endpoint is known; and without
\* an end-session endpoint no revocation request is sent.
C23_RevokeNeverRaises ==
  op = "logout" =>
    /\ exitCode # 1 /\ failure = Null
    /\ (config = Null \/ tokens = Null) => revocations = <<>>
    /\ (config # Null /\ config.endSessionEndpoint = None) => revocations = <<>>
    /\ Len(revocations) <= 2
    /\ pc = "exit" => (exitCode = 0 /\ tokensFile = Null)

C23_Witness ==
  /\ op = "logout" /\ pc = "exit" /\ exitCode = 0
  /\ Len(revocations) = 2
  /\ ~revocations[1].ok /\ ~revocations[2].ok
  /\ tokensFile = Null

\* A logout whose provider publishes no end-session endpoint: nothing is
\* posted and the logout completes.
C23_NoEndpointWitness ==
  /\ op = "logout" /\ pc = "exit" /\ exitCode = 0
  /\ tokens # Null /\ discoveries > 0
  /\ ~NeedsDiscovery(config) /\ config.endSessionEndpoint = None
  /\ revocations = <<>>

\* C25: AuthPKCELibrary.status() rejects exactly when the user is not
\* authenticated (no configuration, no token record, or an expired one) and
\* resolves when a valid authentication exists.
C25_StatusRejectsUnauthenticated ==
  (op = "status" /\ pc = "exit") =>
    ((failure # Null) <=>
       (config = Null \/ before = Null \/ now >= before.expiresAt))

\* C26: AuthPKCELibrary.login() (it awaits loginCommand) returns control to
\* its caller: it resolves after a successful flow and rejects with an Error
\* otherwise; the host process is never terminated.
C26_LoginReturnsControl ==
  (op = "login" /\ pc = "exit") =>
    /\ exitCode = Running
    /\ (failure = Null) <=> (tokensFile = storedTokens /\ storedTokens # Null)

\* C27: the challenge of every PKCEChallenge the program builds is
\* generateCodeChallenge of its own verifier, with method "S256": computing
\* the challenge again from the verifier gives the value that was put into
\* the record and into the authorization URL.
C27_ChallengeOfVerifier ==
  /\ pkceChallenge # Null =>
       /\ pkceChallenge.codeChallenge =
            generateCodeChallenge(pkceChallenge.codeVerifier)
       /\ pkceChallenge.codeChallengeMethod = "S256"
  /\ authUrl # Null =>
       /\ authUrl.code_challenge = generateCodeChallenge(pkceChallenge.codeVerifier)
       /\ authUrl.code_challenge_method = "S256"

C27_Witness ==
  /\ ops = 2 /\ op = "login"
  /\ pkceChallenge # Null /\ authUrl # Null
  /\ pkceChallenge.codeVerifier = generateCodeVerifier(2)
  /\ authUrl.code_challenge = generateCodeChallenge(generateCodeVerifier(2))

\* The stages of an authorize() attempt.
IDLE == 0
ENDPOINTS_RESOLVED == 1
CHALLENGE_ISSUED == 2
AWAITING_CALLBACK == 3
CODE_RECEIVED == 4
TOKENS_EXCHANGED == 5
FAILED == 9

\* authorize() was called by the current process.
Attempting == op = "login" /\ config # Null /\ pc # "none"

\* The stage the attempt of the current process is in.
Stage ==
  IF pc = "ensureEndpoints" THEN IDLE
  ELSE IF pc = "challenge" THEN ENDPOINTS_RESOLVED
  ELSE IF pc = "awaiting" THEN
    (IF promise.status = "rejected" THEN FAILED
     ELSE IF promise.status = "resolved" THEN CODE_RECEIVED
     ELSE IF server = "binding" THEN CHALLENGE_ISSUED
     ELSE AWAITING_CALLBACK)
  ELSE IF pc = "exchanging" THEN CODE_RECEIVED
  ELSE IF tokenResponse # Null THEN TOKENS_EXCHANGED
  ELSE FAILED

\* What the attempt itself writes.
attemptVars ==
  <<authState, pkceChallenge, state, server, timer, promise, authUrl, handled,
    tokenPosts, tokenResponse, discoveries>>

C28_StageInvariant ==
  Attempting =>
    /\ tokenPosts # <<>> =>
         /\ lastCallback # Null /\ lastCallback.status = 200
         /\ lastCallback.req.code # None /\ lastCallback.req.error = None
         /\ lastCallback.req.state = state /\ lastCallback.known
         /\ Stage \in {CODE_RECEIVED, TOKENS_EXCHANGED, FAILED}
    /\ server # "none" =>
         /\ ~NeedsDiscovery(config)
         /\ pkceChallenge # Null /\ state # None
    /\ Stage \in {IDLE, ENDPOINTS_RESOLVED} =>
         (server = "none" /\ pkceChallenge = Null /\ authUrl = Null)
    /\ Stage = CHALLENGE_ISSUED => (MapHas(authState, state) /\ authUrl = Null)
    /\ Stage = AWAITING_CALLBACK => (authUrl # Null /\ tokenPosts = <<>>)
    /\ Stage = TOKENS_EXCHANGED => (Len(tokenPosts) = 1 /\ server = "closed")

C28_StageStep ==
  (Attempting /\ Attempting' /\ ops' = ops) =>
    /\ Stage' = Stage \/ Stage' = Stage + 1 \/ Stage' = FAILED
    /\ Stage \in {TOKENS_EXCHANGED, FAILED} =>
         (Stage' = Stage /\ attemptVars' = attemptVars)

\* C28: an authorize() attempt goes through IDLE, ENDPOINTS_RESOLVED,
\* CHALLENGE_ISSUED, AWAITING_CALLBACK, CODE_RECEIVED, TOKENS_EXCHANGED one
\* stage at a time, or ends in FAILED: the token POST is sent only after a
\* callback with a code and the recorded state, the listener starts only
\* with resolved endpoints, and nothing of the attempt changes once it is in
\* a terminal stage.
C28_StagesInOrder == [](C28_StageInvariant) /\ [][C28_StageStep]_vars

C28_Witness ==
  /\ Attempting /\ pc = "saveTokens"
  /\ Stage = TOKENS_EXCHANGED
  /\ handled = 1 /\ Len(tokenPosts) = 1
  /\ authState = EmptyMap

\* C29: the AuthorizationState of an attempt is deleted when the callback
\* carrying its state is received: from then on the pending map does not
\* hold it, whether the token exchange that follows succeeds or fails.
C29_StateConsumedOnCallback ==
  (Attempting /\ lastCallback # Null /\ lastCallback.settle = "resolve"
     /\ lastCallback.req.state = state) =>
    ~MapHas(authState, state)

\* C30: the pending map of an OAuthClient holds at most one entry, and none
\* when no authorize() is in flight (the attempt succeeded or failed).
C30_NoPendingStateAtRest ==
  op = "login" =>
    /\ Cardinality(DOMAIN authState) <= 1
    /\ pc = "exit" => authState = EmptyMap

\* C22: whenever tokens.json exists its mode is 600; no state shows the
\* record with wider permissions.
C22_RecordOwnerOnly ==
  tokensFile # Null => tokensMode = "600"

\* C21: after a process died inside saveTokens or saveConfig, a load
\* returns the previous complete record, the new complete record or
\* nothing; it never fails on, or returns, a partially written file.
C21_LoadAfterCrash ==
  /\ (op = "loadTokens" /\ pc = "exit") =>
       /\ failure = Null
       /\ tokens \in {Null, before, storedTokens}
  /\ (op = "loadConfig" /\ pc = "exit") =>
       /\ failure = Null
       /\ config \in {Null} \cup {NewConfig(u) : u \in RedirectUris}

\* C24: no failed HTTP call is retried: one invocation of an operation
\* sends at most one refresh request and at most one exchange request.
C24_NoRetry ==
  Len(refreshPosts) <= 1 /\ Len(tokenPosts) <= 1

\* The process is about to call ensureEndpoints (inside authorize,
\* refreshToken, revokeToken or getUserInfo).
EnsuresEndpoints ==
  /\ config # Null
  /\ pc \in {"ensureEndpoints", "refreshEndpoints", "revokeAccess", "revokeRefresh",
             "getUserInfo"}

\* C31: ensureEndpoints on a config that has both authorizationEndpoint and
\* tokenEndpoint sends no discovery request and changes no field; after a
\* call that filled the config both are set, so the next call changes nothing.
C31_EnsureEndpointsStep ==
  (EnsuresEndpoints /\ ops' = ops) =>
    /\ ~NeedsDiscovery(config) => (config' = config /\ discoveries' = discoveries)
    /\ config' # config => (~NeedsDiscovery(config') /\ discoveries' = discoveries + 1)

C31_EnsureEndpointsIdempotent == [][C31_EnsureEndpointsStep]_vars

\* A refresh on a configuration that came with both endpoints.
C31_Witness ==
  /\ Refreshing /\ pc = "exit"
  /\ configFile # Null /\ ~NeedsDiscovery(configFile) /\ config = configFile
  /\ Len(refreshPosts) = 1 /\ discoveries = 0

\* The second revokeToken of a logout whose first one discovered the endpoints.
C31_WitnessSecondCall ==
  /\ op = "logout" /\ pc = "exit"
  /\ configFile # Null /\ NeedsDiscovery(configFile)
  /\ Len(revocations) = 2 /\ discoveries = 1

\* C32: one process sends at most one discovery request, whatever sequence
\* of operations it runs while config.json names no endpoints.
C32_DiscoveryOncePerProcess ==
  discoveries <= 1

MissingEndpoints ==
  Error(<<"Invalid OpenID Connect configuration: missing required endpoints">>)

\* C33: discovery succeeds only with a document naming both endpoints;
\* otherwise the endpoints of the client stay unset, no authorization URL is
\* built and no request goes to an undefined token endpoint.
C33_EndpointsInvariant ==
  /\ config # Null =>
       (config.authorizationEndpoint = None <=> config.tokenEndpoint = None)
  /\ authUrl # Null => authUrl.endpoint # None
  /\ (op = "login" /\ pc \in {"challenge", "awaiting", "exchanging", "saveTokens"}) =>
       ~NeedsDiscovery(config)
  /\ (op = "login" /\ failure = MissingEndpoints) =>
       (NeedsDiscovery(config) /\ authUrl = Null /\ tokenPosts = <<>>)

C33_EndpointsStep ==
  /\ (ops' = ops /\ (tokenPosts' # tokenPosts \/ refreshPosts' # refreshPosts)) =>
       (config' # Null /\ config'.tokenEndpoint # None)
  /\ (ops' = ops /\ discoveries' # discoveries /\ config' = config) =>
       (tokenPosts' = tokenPosts /\ refreshPosts' = refreshPosts
        /\ revocations' = revocations /\ authUrl' = authUrl
        /\ (op # "logout" => failure' # Null))

C33_DiscoveryNeedsBothEndpoints ==
  [](C33_EndpointsInvariant) /\ [][C33_EndpointsStep]_vars

\* A login ended by a document without token_endpoint.
C33_Witness ==
  /\ op = "login" /\ pc = "exit" /\ exitCode = 1
  /\ failure = MissingEndpoints
  /\ discoveries = 1
  /\ config.authorizationEndpoint = None /\ config.tokenEndpoint = None
  /\ authUrl = Null /\ tokenPosts = <<>>

\* C34: config.json is changed by configure only; every other command and
\* accessor leaves it as it is, and the endpoints discovery returned are in
\* the config of the client, never in the file.
C34_ConfigFileInvariant ==
  configFile # Null => configFile = NewConfig(configFile.redirectUri)

C34_ConfigFileStep ==
  configFile' # configFile => (op' = "configure" /\ ops' = ops + 1)

C35_CallbackOfThisAttempt ==
  (op = "login" /\ (promise.status = "resolved" \/ tokenPosts # <<>>)) =>
    (lastCallback # Null /\ lastCallback.req.state = state)

\* C36: once the callback wait has settled, on whatever path, the 5-minute
\* timer of the attempt is no longer pending.
C36_TimerCancelledOnSettle ==
  (op = "login" /\ promise.status \in {"resolved", "rejected"}) => timer # "armed"

\* C37: the authorization URL goes to the browser only once the listener is
\* bound and the state in the URL is recorded, and a callback reaches the
\* handler only while both exist.
C37_UrlStep ==
  /\ (authUrl' # authUrl /\ authUrl' # Null) =>
       /\ server' = "listening"
       /\ authUrl'.state = state'
       /\ MapHas(authState', authUrl'.state)
  /\ (ops' = ops /\ delivered' # delivered) =>
       /\ server = "listening"
       /\ authUrl # Null
       /\ MapHas(authState, state)

C37_UrlAfterListen == [][C37_UrlStep]_vars

\* The listener waits with the URL of its state in the browser.
C37_Witness ==
  /\ op = "login" /\ pc = "awaiting" /\ server = "listening"
  /\ authUrl # Null /\ authUrl.state = state
  /\ MapHas(authState, state)
  /\ delivered = 0 /\ refused = 0

\* C38: once a logout has completed there is no token record until a later
\* login succeeds: a refresh that began before the logout and finds the
\* record removed does not bring one back.
C38_RefreshKeepsLogout ==
  (Refreshing /\ ops' = ops /\ tokensFile = Null) => tokensFile' = Null

C38_NoRecordAfterLogout == [][C38_RefreshKeepsLogout]_vars

\* C39: getAccessToken() returns a token only in a store in which
\* isAuthenticated() answers true (at once, or by the refresh it goes into),
\* the store with a valid record and no configuration included.
C39_AccessorsAgree ==
  (op = "getAccessToken" /\ pc = "exit" /\ result \notin {NullResult, None}) =>
    isAuthenticated(configFile, tokensFile, autoRefresh, now) # "false"

EndpointFields ==
  {"authorizationEndpoint", "tokenEndpoint", "userinfoEndpoint", "endSessionEndpoint"}

\* C40: ensureEndpoints fills the endpoints that are unset and leaves every
\* endpoint that is set with the value it has.
C40_KeepsEndpointsStep ==
  (EnsuresEndpoints /\ ops' = ops) =>
    \A f \in EndpointFields : config[f] # None => config'[f] = config[f]

C40_KeepsConfiguredEndpoints == [][C40_KeepsEndpointsStep]_vars

====
